---- MODULE Spec2Model ----
(***************************************************************************)
(* Model of the SNP graph reduction (ld_graph/snp_graph.py) and of the     *)
(* brick graph rules that tests/test_brick_graph.py asserts.               *)
(*                                                                         *)
(* Role nodes are the integers 4*brick + offset (up 0, down 1, in 2,       *)
(* out 3).  A brick graph is a record [nodes, edges]: nodes is the node    *)
(* list in insertion order (networkx keeps it), edges the list of          *)
(* <<source, target, weight>> in insertion order.  The reduced graph R is  *)
(* a record [nodes, edges]: a set of mutation ids and a function from      *)
(* unordered pairs {a, b} (a set, a singleton for a self-loop) to the      *)
(* weight attribute.                                                       *)
(***************************************************************************)
EXTENDS Integers, Sequences, FiniteSets, TLC

VARIABLES brick_graph, bricks_to_muts, threshold,
          pc, l_in, l_out, R, i, ret,
          ts, labeled, bpc, t, node_edge_dict, G

rvars == <<brick_graph, bricks_to_muts, threshold, pc, l_in, l_out, R, i, ret>>
bvars == <<ts, labeled, bpc, t, node_edge_dict, G>>
vars == <<brick_graph, bricks_to_muts, threshold, pc, l_in, l_out, R, i, ret,
          ts, labeled, bpc, t, node_edge_dict, G>>

(***************************************************************************)
(* Bounds of the model.                                                    *)
(***************************************************************************)
\* largest edge weight of an enumerated brick graph
MaxW == 1
\* largest threshold enumerated
MaxT == 2
\* number of local trees of an enumerated tree sequence
NTrees == 2

(***************************************************************************)
(* Small helpers.                                                          *)
(***************************************************************************)
Range(s) == {s[k] : k \in 1..Len(s)}

EmptyFn == [x \in {} |-> 0]

Min(S) == CHOOSE x \in S : \A y \in S : x <= y

Max(S) == CHOOSE x \in S : \A y \in S : x >= y

\* the sequences that list every element of S exactly once
Perms(S) == {s \in [1..Cardinality(S) -> S] : Range(s) = S}

\* append the elements of ns that s does not hold yet, in order
RECURSIVE AddNew(_, _)
AddNew(s, ns) ==
  IF ns = <<>> THEN s
  ELSE AddNew(IF Head(ns) \in Range(s) THEN s ELSE Append(s, Head(ns)), Tail(ns))

\* the end points of a list of edges, flattened in order
RECURSIVE EndPoints(_)
EndPoints(es) ==
  IF es = <<>> THEN <<>>
  ELSE <<Head(es)[1], Head(es)[2]>> \o EndPoints(Tail(es))

(***************************************************************************)
(* Role nodes.                                                             *)
(***************************************************************************)
Up(b) == 4 * b

Down(b) == 4 * b + 1

In(b) == 4 * b + 2

Out(b) == 4 * b + 3

IsIn(n) == n % 4 = 2

IsOut(n) == n % 4 = 3

BrickOf(n) == n \div 4

\* bricks_to_muts[brick][0]
FirstMut(muts, b) == muts[b][1]

(***************************************************************************)
(* networkx.Graph: add_nodes_from and add_edge.                            *)
(***************************************************************************)
EmptyGraph == [nodes |-> {}, edges |-> EmptyFn]

\* a bug: the nodes are not added
AddNodesFromSkip(g, ns) == g

\* add_nodes_from
AddNodesFrom(g, ns) == [g EXCEPT !.nodes = @ \cup ns]

\* a bug: the graph is rebuilt around the new edge
AddEdgeReset(g, a, b, w) ==
  [nodes |-> g.nodes \cup {a, b}, edges |-> ({a, b} :> w)]

\* a bug: an existing weight is kept when it is smaller
AddEdgeMin(g, a, b, w) ==
  [nodes |-> g.nodes \cup {a, b},
   edges |-> ({a, b} :> (IF {a, b} \in DOMAIN g.edges /\ g.edges[{a, b}] < w
                         THEN g.edges[{a, b}] ELSE w)) @@ g.edges]

\* add_edge: both end points become nodes, the weight attribute is overwritten
AddEdge(g, a, b, w) ==
  [nodes |-> g.nodes \cup {a, b}, edges |-> ({a, b} :> w) @@ g.edges]

(***************************************************************************)
(* networkx.single_source_dijkstra_path_length(G, u, cutoff, weight).      *)
(* The result is the list of <<node, distance>> in the order the nodes are *)
(* finalised (the order of the returned dict).  The fringe holds           *)
(* <<distance, counter, node>>; the heap pops the least (distance,         *)
(* counter).                                                               *)
(***************************************************************************)
OutEdges(g, v) == SelectSeq(g.edges, LAMBDA e : e[1] = v)

Finalised(dist) == {dist[k][1] : k \in 1..Len(dist)}

\* a bug: the cutoff comparison is turned around
OverCutoffFlipped(d, cutoff) == d < cutoff

\* if vu_dist > cutoff: continue
OverCutoff(d, cutoff) == d > cutoff

\* a bug: the fringe is served first in, first out
PopFifo(fringe) ==
  CHOOSE x \in fringe : \A y \in fringe : x[2] <= y[2]

\* heappop: least distance, then least counter
Pop(fringe) ==
  CHOOSE x \in fringe :
    \A y \in fringe : x[1] < y[1] \/ (x[1] = y[1] /\ x[2] <= y[2])

\* the loop over G_succ[v].items(); st = [seen, fringe, c].  Weights are not
\* negative, so a finalised node is never reached by a shorter path (the
\* ValueError of networkx cannot arise) and is passed over
RECURSIVE Relax(_, _, _, _, _)
Relax(es, d, cutoff, dist, st) ==
  IF es = <<>> THEN st
  ELSE LET u == Head(es)[2]
           vu_dist == d + Head(es)[3]
       IN IF OverCutoff(vu_dist, cutoff) THEN Relax(Tail(es), d, cutoff, dist, st)
          ELSE IF u \in Finalised(dist) THEN Relax(Tail(es), d, cutoff, dist, st)
          ELSE IF u \notin DOMAIN st.seen \/ vu_dist < st.seen[u]
               THEN Relax(Tail(es), d, cutoff, dist,
                          [seen |-> (u :> vu_dist) @@ st.seen,
                           fringe |-> st.fringe \cup {<<vu_dist, st.c, u>>},
                           c |-> st.c + 1])
               ELSE Relax(Tail(es), d, cutoff, dist, st)

RECURSIVE DijkstraLoop(_, _, _, _)
DijkstraLoop(g, cutoff, dist, st) ==
  IF st.fringe = {} THEN dist
  ELSE LET top == Pop(st.fringe)
           rest == [st EXCEPT !.fringe = @ \ {top}]
       IN IF top[3] \in Finalised(dist) THEN DijkstraLoop(g, cutoff, dist, rest)
          ELSE LET dist2 == Append(dist, <<top[3], top[1]>>)
               IN DijkstraLoop(g, cutoff, dist2,
                               Relax(OutEdges(g, top[3]), top[1], cutoff, dist2, rest))

Dijkstra(g, u, cutoff) ==
  DijkstraLoop(g, cutoff, <<>>, [seen |-> (u :> 0), fringe |-> {<<0, 0, u>>}, c |-> 1])

(***************************************************************************)
(* SNP_Graph.create_reduced_graph.                                         *)
(***************************************************************************)
\* a bug: the source's own brick is not excluded
IsHitNoSelfCheck(key, u) == IsIn(key)

\* if key % 4 == 2 and key // 4 != u // 4
IsHit(key, u) == IsIn(key) /\ BrickOf(key) # BrickOf(u)

\* for key, value in length.items(): ... R.add_edge(...)
RECURSIVE AddHits(_, _, _, _)
AddHits(g, muts, u, length) ==
  IF length = <<>> THEN g
  ELSE LET key == Head(length)[1]
           value == Head(length)[2]
       IN AddHits(IF IsHit(key, u)
                  THEN AddEdge(g, FirstMut(muts, BrickOf(u)),
                               FirstMut(muts, BrickOf(key)), value)
                  ELSE g,
                  muts, u, Tail(length))

\* one pass of the loop over l_out
SourceStep(g, bg, muts, cutoff, u) == AddHits(g, muts, u, Dijkstra(bg, u, cutoff))

\* a bug: the check is compiled away
CountsAgreeSkipped(lin, lout) == TRUE

\* assert len(l_in) == len(l_out)
CountsAgree(lin, lout) == Len(lin) = Len(lout)

\* the whole loop, over the sources in the given order
RECURSIVE ReduceFrom(_, _, _, _, _)
ReduceFrom(g, bg, muts, cutoff, order) ==
  IF order = <<>> THEN g
  ELSE ReduceFrom(SourceStep(g, bg, muts, cutoff, Head(order)), bg, muts, cutoff,
                  Tail(order))

\* the graph create_reduced_graph returns when the sources are taken in `order`
Reduced(bg, muts, cutoff, order) ==
  ReduceFrom(AddNodesFrom(EmptyGraph, {FirstMut(muts, BrickOf(order[k])) : k \in 1..Len(order)}),
             bg, muts, cutoff, order)

\* nodes, l_in, l_out, R, add_nodes_from and the assertion
Start ==
  /\ pc = "start"
  /\ l_in' = SelectSeq(brick_graph.nodes, IsIn)
  /\ l_out' = SelectSeq(brick_graph.nodes, IsOut)
  /\ R' = AddNodesFrom(EmptyGraph,
                       {FirstMut(bricks_to_muts, BrickOf(n)) :
                          n \in Range(SelectSeq(brick_graph.nodes, IsOut))})
  /\ pc' = IF CountsAgree(l_in', l_out') THEN "loop" ELSE "failed"
  /\ UNCHANGED <<brick_graph, bricks_to_muts, threshold, i, ret>>
  /\ UNCHANGED bvars

\* one source: the search from it and the edges it adds
ProcessSource ==
  /\ pc = "loop"
  /\ i < Len(l_out)
  /\ R' = SourceStep(R, brick_graph, bricks_to_muts, threshold, l_out[i + 1])
  /\ i' = i + 1
  /\ UNCHANGED <<brick_graph, bricks_to_muts, threshold, pc, l_in, l_out, ret>>
  /\ UNCHANGED bvars

\* return R
Return ==
  /\ pc = "loop"
  /\ i = Len(l_out)
  /\ ret' = {R}
  /\ pc' = "done"
  /\ UNCHANGED <<brick_graph, bricks_to_muts, threshold, l_in, l_out, R, i>>
  /\ UNCHANGED bvars

(***************************************************************************)
(* The brick graphs, mappings and thresholds the reducer is run on.        *)
(***************************************************************************)
\* bricks 0, 1, 2 carry mutations; brick 3 carries none
CandEdges ==
  << <<Out(0), In(1)>>, <<Out(1), In(0)>>, <<Out(0), Up(3)>>,
     <<Up(3), In(1)>>, <<Out(0), In(2)>>, <<Out(1), Up(3)>> >>

\* nodes added to the graph before any edge
BaseNodes ==
  { <<>>,
    <<In(0), Out(0), In(1), Out(1), In(2), Out(2)>>,
    <<Out(2), In(2), Out(1), In(1), Out(0), In(0)>> }

MutsOf(a, b, c) == (0 :> a) @@ (1 :> b) @@ (2 :> c)

\* the mutation lists of bricks 0, 1, 2; the first mutation stands for the brick
Mappings ==
  { MutsOf(<<0, 3>>, <<1>>, <<2>>),
    MutsOf(<<0>>, <<1>>, <<1, 2>>),
    MutsOf(<<0>>, <<0, 1>>, <<2>>) }

NoBuilder ==
  /\ ts = <<>>
  /\ labeled = {}
  /\ bpc = "off"
  /\ t = 0
  /\ node_edge_dict = EmptyFn
  /\ G = {}

ReducerIdle ==
  /\ pc = "start"
  /\ l_in = <<>>
  /\ l_out = <<>>
  /\ R = EmptyGraph
  /\ i = 0
  /\ ret = {}

Init ==
  /\ \E wsel \in [1..Len(CandEdges) -> -1..MaxW], base \in BaseNodes :
       LET all == [k \in 1..Len(CandEdges) |-> <<CandEdges[k][1], CandEdges[k][2], wsel[k]>>]
           es == SelectSeq(all, LAMBDA e : e[3] >= 0)
       IN brick_graph = [nodes |-> AddNew(base, EndPoints(es)), edges |-> es]
  /\ bricks_to_muts \in Mappings
  /\ threshold \in 0..MaxT
  /\ ReducerIdle
  /\ NoBuilder

Next == Start \/ ProcessSource \/ Return

Spec == Init /\ [][Next]_vars

(***************************************************************************)
(* The brick graph rules (tests/test_brick_graph.py).                      *)
(***************************************************************************)
\* a bug: the edge of an unlabeled brick runs from up to down
SelfEdgeFlipped(b) == <<Up(b), Down(b)>>

\* an unlabeled brick: its down node is connected to its up node
SelfEdge(b) == <<Down(b), Up(b)>>

\* a bug: under a labeled parent the unlabeled child's edges are turned around
RuleEdgesTurned(c, pb, lab) ==
  IF c \notin lab /\ pb \notin lab THEN {<<Up(c), Up(pb)>>, <<Down(pb), Down(c)>>}
  ELSE IF c \notin lab /\ pb \in lab THEN {<<In(pb), Up(c)>>, <<Down(c), Out(pb)>>}
  ELSE IF c \in lab /\ pb \notin lab THEN {<<Out(c), Up(pb)>>, <<Down(pb), In(c)>>}
  ELSE {<<Out(c), In(pb)>>, <<Out(pb), In(c)>>}

\* the two edges of a child brick c under a parent brick pb; lab: the labeled bricks
RuleEdges(c, pb, lab) ==
  IF c \notin lab /\ pb \notin lab THEN {<<Up(c), Up(pb)>>, <<Down(pb), Down(c)>>}
  ELSE IF c \notin lab /\ pb \in lab THEN {<<Up(c), In(pb)>>, <<Out(pb), Down(c)>>}
  ELSE IF c \in lab /\ pb \notin lab THEN {<<Out(c), Up(pb)>>, <<Down(pb), In(c)>>}
  ELSE {<<Out(c), In(pb)>>, <<Out(pb), In(c)>>}

(***************************************************************************)
(* Tree sequences.  A tree sequence is a list of local trees; a local tree *)
(* maps each node to its parent, -1 for none.  A tree sequence edge (a     *)
(* brick) is a maximal run of consecutive trees over which a child keeps   *)
(* its parent.                                                             *)
(***************************************************************************)
TreeNodes == 0..3

NumNodes == Cardinality(TreeNodes)

\* tree.parent(n) != -1
HasParent(tree, n) == tree[n] # -1

\* the first tree of the edge that enters n in tree k
EdgeStart(tseq, k, n) ==
  Min({k0 \in 1..k : \A j \in k0..k : tseq[j][n] = tseq[k][n]})

\* edge.id of the edge that enters n in tree k
EdgeId(tseq, k, n) == (EdgeStart(tseq, k, n) - 1) * NumNodes + n

\* the children of the edges of tree k (none for k = 0)
EdgeChildren(tseq, k) ==
  IF k = 0 THEN {} ELSE {n \in TreeNodes : HasParent(tseq[k], n)}

\* edge_diffs(): the children of the edges that leave on entering tree k
EdgesOut(tseq, k) ==
  {n \in EdgeChildren(tseq, k - 1) :
     n \notin EdgeChildren(tseq, k) \/ EdgeId(tseq, k, n) # EdgeId(tseq, k - 1, n)}

\* edge_diffs(): the children of the edges that arrive on entering tree k
EdgesIn(tseq, k) ==
  {n \in EdgeChildren(tseq, k) :
     n \notin EdgeChildren(tseq, k - 1) \/ EdgeId(tseq, k, n) # EdgeId(tseq, k - 1, n)}

\* every edge id of the tree sequence
Bricks(tseq) ==
  {EdgeId(tseq, k, n) : <<k, n>> \in {x \in (1..Len(tseq)) \X TreeNodes :
                                         HasParent(tseq[x[1]], x[2])}}

\* a bug: the arriving edges are entered before the departing ones are removed
UpdateLookupInFirst(dict, tseq, k) ==
  LET added == [n \in DOMAIN dict \cup EdgesIn(tseq, k) |->
                  IF n \in EdgesIn(tseq, k) THEN EdgeId(tseq, k, n) ELSE dict[n]]
  IN [n \in DOMAIN added \ EdgesOut(tseq, k) |-> added[n]]

\* node_edge_dict: pop the children of edges_out, then enter those of edges_in
UpdateLookup(dict, tseq, k) ==
  LET popped == [n \in DOMAIN dict \ EdgesOut(tseq, k) |-> dict[n]]
  IN [n \in DOMAIN popped \cup EdgesIn(tseq, k) |->
        IF n \in EdgesIn(tseq, k) THEN EdgeId(tseq, k, n) ELSE popped[n]]

\* the nodes of a tree whose parent is present and is not the root
Branches(tree) ==
  {n \in TreeNodes : HasParent(tree, n) /\ HasParent(tree, tree[n])}

\* the self edges of the unlabeled bricks
BuildStart ==
  /\ bpc = "start"
  /\ G' = {SelfEdge(b) : b \in Bricks(ts) \ labeled}
  /\ bpc' = "scan"
  /\ UNCHANGED <<ts, labeled, t, node_edge_dict>>
  /\ UNCHANGED rvars

\* the next local tree: the lookup follows the edge diffs, then every branch
\* of the tree emits the two edges of its row
BuildTree ==
  /\ bpc = "scan"
  /\ t < Len(ts)
  /\ LET dict == UpdateLookup(node_edge_dict, ts, t + 1)
         tree == ts[t + 1]
     IN /\ node_edge_dict' = dict
        /\ IF \E n \in Branches(tree) : n \notin DOMAIN dict \/ tree[n] \notin DOMAIN dict
           THEN bpc' = "crashed" /\ G' = G
           ELSE /\ bpc' = bpc
                /\ G' = G \cup UNION {RuleEdges(dict[n], dict[tree[n]], labeled) :
                                        n \in Branches(tree)}
  /\ t' = t + 1
  /\ UNCHANGED <<ts, labeled>>
  /\ UNCHANGED rvars

\* the last tree is done
BuildDone ==
  /\ bpc = "scan"
  /\ t = Len(ts)
  /\ bpc' = "built"
  /\ UNCHANGED <<ts, labeled, t, node_edge_dict, G>>
  /\ UNCHANGED rvars

\* a local tree: parents are older (larger) nodes, one root at most
LocalTrees ==
  {tree \in [TreeNodes -> TreeNodes \cup {-1}] :
     /\ \A n \in TreeNodes : tree[n] = -1 \/ tree[n] > n
     /\ Cardinality({r \in TreeNodes : tree[r] = -1 /\ \E n \in TreeNodes : tree[n] = r}) <= 1}

TreeSeqs == [1..NTrees -> LocalTrees]

InitBuild ==
  /\ ts \in TreeSeqs
  /\ labeled \in SUBSET Bricks(ts)
  /\ bpc = "start"
  /\ t = 0
  /\ node_edge_dict = EmptyFn
  /\ G = {}
  /\ brick_graph = [nodes |-> <<>>, edges |-> <<>>]
  /\ bricks_to_muts = EmptyFn
  /\ threshold = 0
  /\ ReducerIdle

NextBuild == BuildStart \/ BuildTree \/ BuildDone

SpecBuild == InitBuild /\ [][NextBuild]_vars

(***************************************************************************)
(* Two labeled sibling bricks c1 = 0 and c2 = 1 under the unlabeled brick  *)
(* pb = 2, whose own parent is the root: the brick graph the rules give,   *)
(* with a weight for each of the four parent-child edges.                  *)
(***************************************************************************)
SibLabeled == {0, 1}

\* the list of weighted edges: the self edge, then the rows of c1 and c2
SibEdges(w) ==
  LET up(c) == CHOOSE e \in RuleEdges(c, 2, SibLabeled) : e[1] = Out(c)
      down(c) == CHOOSE e \in RuleEdges(c, 2, SibLabeled) : e[2] = In(c)
  IN << <<SelfEdge(2)[1], SelfEdge(2)[2], 0>>,
        <<up(0)[1], up(0)[2], w[1]>>, <<down(0)[1], down(0)[2], w[2]>>,
        <<up(1)[1], up(1)[2], w[3]>>, <<down(1)[1], down(1)[2], w[4]>> >>

SibMappings ==
  { (0 :> <<0>>) @@ (1 :> <<1>>), (0 :> <<1, 0>>) @@ (1 :> <<0>>) }

InitSib ==
  /\ \E w \in [1..4 -> 0..MaxW] :
       brick_graph = [nodes |-> AddNew(<<>>, EndPoints(SibEdges(w))), edges |-> SibEdges(w)]
  /\ bricks_to_muts \in SibMappings
  /\ threshold \in 0..(2 * MaxW + 1)
  /\ ReducerIdle
  /\ NoBuilder

SpecSib == InitSib /\ [][Next]_vars

(***************************************************************************)
(* Reference definitions for the properties.                               *)
(***************************************************************************)
Nodes == Range(brick_graph.nodes)

\* stands for "no path": above the weight of every path of an enumerated graph
Inf == (Len(CandEdges) + 1) * MaxW + 1

\* one round of relaxation of the distances D from a source
RelaxAll(D) ==
  [n \in Nodes |->
     Min({D[n]} \cup {D[e[1]] + e[3] : e \in {x \in Range(brick_graph.edges) :
                                                x[2] = n /\ D[x[1]] < Inf}})]

\* relaxation repeated until the distances no longer change
RECURSIVE RelaxFix(_)
RelaxFix(D) ==
  LET next == RelaxAll(D)
  IN IF next = D THEN D ELSE RelaxFix(next)

\* the shortest-path distances from s in the directed brick graph
\* (Bellman-Ford; Inf when there is no path)
DistFrom(s) == RelaxFix([m \in Nodes |-> IF m = s THEN 0 ELSE Inf])

RECURSIVE DistTableOf(_)
DistTableOf(S) ==
  IF S = {} THEN EmptyFn
  ELSE LET u == CHOOSE x \in S : TRUE
       IN (u :> DistFrom(u)) @@ DistTableOf(S \ {u})

\* the table of shortest-path distances from every out node
DistTable == DistTableOf({m \in Nodes : IsOut(m)})

OutBricks == {BrickOf(n) : n \in {m \in Nodes : IsOut(m)}}

InBricks == {BrickOf(n) : n \in {m \in Nodes : IsIn(m)}}

Mut(b) == FirstMut(bricks_to_muts, b)

OutMuts == {Mut(b) : b \in OutBricks}

\* distinct bricks have distinct first mutations
DistinctFirst ==
  \A a, b \in DOMAIN bricks_to_muts : a # b => Mut(a) # Mut(b)

\* the in nodes of other bricks within the threshold of the out node u that
\* stand for the mutation pair e
HitsOf(D, u, e) ==
  {n \in Nodes : /\ IsIn(n)
                 /\ BrickOf(n) # BrickOf(u)
                 /\ D[u][n] <= threshold
                 /\ {Mut(BrickOf(u)), Mut(BrickOf(n))} = e}

\* the positions in l_out of the sources that reach the pair e
SourcesOf(D, e) == {k \in 1..Len(l_out) : HitsOf(D, l_out[k], e) # {}}

\* the last distance the source u finds for the pair e
SourceValue(D, u, e) == Max({D[u][n] : n \in HitsOf(D, u, e)})

\* every mutation pair some source reaches
AllPairs(D) ==
  {{Mut(BrickOf(x[1])), Mut(BrickOf(x[2]))} :
     x \in {y \in Nodes \X Nodes : /\ IsOut(y[1]) /\ IsIn(y[2])
                                   /\ BrickOf(y[1]) # BrickOf(y[2])
                                   /\ D[y[1]][y[2]] <= threshold}}

(***************************************************************************)
(* C1.  Every edge {m_a, m_b} of the reduced graph has as weight the       *)
(* shortest-path distance in the directed brick graph from the out node   *)
(* of one brick to the in node of another brick, m_a and m_b being the     *)
(* first mutations of the two bricks.  Stated for the graph under          *)
(* construction at every step, hence for the graph returned.               *)
(***************************************************************************)
C1_WeightIsShortestPath ==
  LET D == DistTable
  IN \A e \in DOMAIN R.edges :
       \E a \in OutBricks, b \in InBricks :
         /\ a # b
         /\ {Mut(a), Mut(b)} = e
         /\ R.edges[e] = D[Out(a)][In(b)]

\* returned: an edge lighter than the direct brick graph edge between its bricks
C1_Witness ==
  /\ pc = "done"
  /\ DistinctFirst
  /\ \E x \in Range(brick_graph.edges) :
       /\ IsOut(x[1]) /\ IsIn(x[2])
       /\ {Mut(BrickOf(x[1])), Mut(BrickOf(x[2]))} \in DOMAIN R.edges
       /\ R.edges[{Mut(BrickOf(x[1])), Mut(BrickOf(x[2]))}] < x[3]

(***************************************************************************)
(* C2.  When distinct bricks have distinct first mutations, the reduced    *)
(* graph holds no self-loop and no edge heavier than the threshold.        *)
(***************************************************************************)
C2_NoSelfLoopNoHeavyEdge ==
  DistinctFirst =>
    \A e \in DOMAIN R.edges : Cardinality(e) = 2 /\ R.edges[e] <= threshold

\* returned with an edge, after a source reached its own in node within the
\* threshold and another brick's in node only beyond it
C2_Witness ==
  /\ pc = "done"
  /\ DistinctFirst
  /\ DOMAIN R.edges # {}
  /\ \E u \in Range(l_out) :
       In(BrickOf(u)) \in Nodes /\ DistTable[u][In(BrickOf(u))] <= threshold
  /\ \E u \in Range(l_out), n \in Nodes :
       /\ IsIn(n) /\ BrickOf(n) # BrickOf(u)
       /\ DistTable[u][n] > threshold /\ DistTable[u][n] < Inf

ReachedInMuts(D) ==
  {Mut(b) : b \in {x \in InBricks : \E a \in OutBricks :
                                      a # x /\ D[Out(a)][In(x)] <= threshold}}

C5_MonotoneInThreshold ==
  \A g \in ret :
    \A T2 \in (threshold + 1)..(MaxT + 1) :
      DOMAIN g.edges \subseteq
        DOMAIN Reduced(brick_graph, bricks_to_muts, T2, l_out).edges

\* returned with an edge, and a larger threshold gives strictly more edges
C5_Witness ==
  /\ pc = "done"
  /\ DOMAIN R.edges # {}
  /\ \E T2 \in (threshold + 1)..(MaxT + 1) :
       DOMAIN Reduced(brick_graph, bricks_to_muts, T2, l_out).edges # DOMAIN R.edges

(***************************************************************************)
(* C6.  When the numbers of in nodes and of out nodes differ, the call     *)
(* fails at the assertion: no source is ever searched and no graph is      *)
(* returned.                                                               *)
(***************************************************************************)
C6_AbortOnCountMismatch ==
  Cardinality({n \in Nodes : IsIn(n)}) # Cardinality({n \in Nodes : IsOut(n)}) =>
    /\ pc \in {"start", "failed"}
    /\ i = 0
    /\ DOMAIN R.edges = {}
    /\ ret = {}

\* failed on a brick graph that has sources to search
C6_Witness ==
  /\ pc = "failed"
  /\ \E u \in Range(l_out) : OutEdges(brick_graph, u) # <<>>

(***************************************************************************)
(* C9.  As claimed: every processing order of l_out gives the returned     *)
(* graph: the same nodes, edges and weights.                               *)
(***************************************************************************)
C9_OrderIndependent ==
  \A g \in ret :
    \A order \in Perms(Range(l_out)) :
      Reduced(brick_graph, bricks_to_muts, threshold, order) = g

(***************************************************************************)
(* C9, amended.  Every processing order gives the same node set and the    *)
(* same edge set; the weight of an edge differs between two orders only    *)
(* when two sources both reach its mutation pair and find different        *)
(* distances for it.                                                       *)
(***************************************************************************)
C9_OrderAmended ==
  \A g \in ret :
    \A order \in Perms(Range(l_out)) :
      LET h == Reduced(brick_graph, bricks_to_muts, threshold, order)
          D == DistTable
      IN /\ h.nodes = g.nodes
         /\ DOMAIN h.edges = DOMAIN g.edges
         /\ \A e \in DOMAIN g.edges :
              h.edges[e] # g.edges[e] =>
                \E j, k \in SourcesOf(D, e) :
                  SourceValue(D, l_out[j], e) # SourceValue(D, l_out[k], e)

\* returned after two sources or more, and another order changes a weight
C9_Witness ==
  /\ pc = "done"
  /\ Len(l_out) >= 2
  /\ \E order \in Perms(Range(l_out)) :
       LET h == Reduced(brick_graph, bricks_to_muts, threshold, order)
       IN \E e \in DOMAIN R.edges : h.edges[e] # R.edges[e]

(***************************************************************************)
(* C10.  The weight of a returned edge is the distance found by the last   *)
(* source, in l_out order, that reaches the edge's mutation pair (the last *)
(* distance that source finds for the pair); the returned edges are the    *)
(* pairs some source reaches.                                              *)
(***************************************************************************)
C10_LastSourceWins ==
  \A g \in ret :
    LET D == DistTable
    IN /\ DOMAIN g.edges = AllPairs(D)
       /\ \A e \in DOMAIN g.edges :
            g.edges[e] = SourceValue(D, l_out[Max(SourcesOf(D, e))], e)

\* returned: a pair reached by two sources whose weight is neither the least
\* distance found for it nor the one the first source found
C10_Witness ==
  /\ pc = "done"
  /\ LET D == DistTable
     IN \E e \in DOMAIN R.edges :
          /\ Cardinality(SourcesOf(D, e)) >= 2
          /\ R.edges[e] # SourceValue(D, l_out[Min(SourcesOf(D, e))], e)
          /\ \E k \in SourcesOf(D, e) : \E n \in HitsOf(D, l_out[k], e) :
               D[l_out[k]][n] < R.edges[e]

(***************************************************************************)
(* C3.  As claimed, for the two siblings under the unlabeled parent, with  *)
(* w the weight of out(c1) -> up(pb), down(pb) -> up(pb), down(pb) ->      *)
(* in(c2): at a threshold of w or more the reduced graph has exactly one   *)
(* edge, of weight w, between the two first mutations; below w it has no   *)
(* edge.                                                                   *)
(***************************************************************************)
SibWeight ==
  brick_graph.edges[2][3] + brick_graph.edges[1][3] + brick_graph.edges[5][3]

C3_SiblingEdgeAtThreshold ==
  \A g \in ret :
    IF threshold >= SibWeight
    THEN DOMAIN g.edges = {{Mut(0), Mut(1)}} /\ g.edges[{Mut(0), Mut(1)}] = SibWeight
    ELSE DOMAIN g.edges = {}

(***************************************************************************)
(* C3, amended.  For the two siblings under the unlabeled parent the       *)
(* reduced graph has the two first mutations as nodes and no edge at any   *)
(* threshold: from the out node of a sibling only the up node of the       *)
(* parent is reachable, since the parent's own edge runs from its down     *)
(* node to its up node.                                                    *)
(***************************************************************************)
C3_SiblingsNeverJoined ==
  /\ \A g \in ret : g.nodes = {Mut(0), Mut(1)} /\ DOMAIN g.edges = {}
  /\ pc = "done" =>
       \A b \in SibLabeled :
         {n \in Nodes : DistFrom(Out(b))[n] < Inf} = {Out(b), Up(2)}

\* returned at a threshold of at least the weight between the siblings
C3_Witness ==
  /\ pc = "done"
  /\ i = 2
  /\ SibWeight > 0
  /\ threshold >= SibWeight

(***************************************************************************)
(* C7.  No edge of the brick graph under construction leaves an in node    *)
(* and none enters an out node.                                            *)
(***************************************************************************)
C7_InIsSinkOutIsSource ==
  \A e \in G : ~IsIn(e[1]) /\ ~IsOut(e[2])

\* built over trees between which edges left and arrived, with edges that
\* leave an out node and edges that enter an in node
C7_Witness ==
  /\ bpc = "built"
  /\ EdgesOut(ts, Len(ts)) # {}
  /\ EdgesIn(ts, Len(ts)) # {}
  /\ \E e \in G : IsOut(e[1])
  /\ \E e \in G : IsIn(e[2])

\* the four rows of the table for a child brick c and a parent brick pb
Rows(c, pb) ==
  << {<<Up(c), Up(pb)>>, <<Down(pb), Down(c)>>},
     {<<Up(c), In(pb)>>, <<Out(pb), Down(c)>>},
     {<<Out(c), Up(pb)>>, <<Down(pb), In(c)>>},
     {<<Out(c), In(pb)>>, <<Out(pb), In(c)>>} >>

\* the row the labels of c and pb select
RowOf(c, pb) ==
  IF c \notin labeled THEN (IF pb \notin labeled THEN 1 ELSE 2)
  ELSE (IF pb \notin labeled THEN 3 ELSE 4)

\* the brick of the edge into n in tree k, read off the tree sequence
DirectLookup(k) == [n \in EdgeChildren(ts, k) |-> EdgeId(ts, k, n)]

(***************************************************************************)
(* C8.  The lookup never fails; after a tree is processed the lookup kept  *)
(* through the edge diffs gives, for each node with a parent, the brick of *)
(* its edge in that tree; and for every tree processed and every node n    *)
(* whose parent p is not the root, the brick graph holds both edges of the *)
(* row selected by the labels of the bricks of n and p, and no edge of the *)
(* three other rows unless the selected row holds it too.                  *)
(***************************************************************************)
C8_RuleRowPresent ==
  /\ bpc # "crashed"
  /\ t >= 1 => node_edge_dict = DirectLookup(t)
  /\ \A k \in 1..t :
       \A n \in Branches(ts[k]) :
         LET c == DirectLookup(k)[n]
             pb == DirectLookup(k)[ts[k][n]]
             row == Rows(c, pb)[RowOf(c, pb)]
         IN /\ n \in DOMAIN DirectLookup(k)
            /\ ts[k][n] \in DOMAIN DirectLookup(k)
            /\ row \subseteq G
            /\ \A r \in 1..4 : (Rows(c, pb)[r] \ row) \cap G = {}

\* built: in the last tree a branch whose edge arrived with that tree, under a
\* parent whose edge stayed, and both kinds of brick among the branches
C8_Witness ==
  /\ bpc = "built"
  /\ \E n \in Branches(ts[Len(ts)]) :
       /\ n \in EdgesIn(ts, Len(ts)) /\ n \in EdgesOut(ts, Len(ts))
       /\ ts[Len(ts)][n] \notin EdgesIn(ts, Len(ts))
       /\ DirectLookup(Len(ts))[n] \in labeled
       /\ DirectLookup(Len(ts))[ts[Len(ts)][n]] \notin labeled

====
